---- MODULE Spec2Model ----
(***************************************************************************)
(* Actuation node firmware of the active wind wall                         *)
(* (pico/firmware_template.c): the SPI receive loop, the sync interrupt,   *)
(* the latch-and-apply step and the safety watchdog, together with the     *)
(* coordinator that clocks bytes onto the bus and raises the sync line.    *)
(*                                                                         *)
(* The main loop is modelled at the granularity at which the interrupt and *)
(* the SPI hardware can interleave with it: one step per byte drained in   *)
(* step A, one step for the exit of step A's while loop, one for step B    *)
(* and one for step C.                                                     *)
(***************************************************************************)
EXTENDS Integers, Sequences, FiniteSets, TLC

(***************************************************************************)
(* Program constants                                                       *)
(***************************************************************************)
MOTORS_PER_PICO == 9
TOTAL_MOTORS == 36
FRAME_BYTES == TOTAL_MOTORS
NUM_PICOS == 4
SAFETY_TIMEOUT_US == 200000
LED_TOGGLE_SYNCS == 20
IDLE_PULSE_US == 1000
MAX_PULSE_US == 2000
ACTIVE_MIN_US == 1200
ACTIVE_SPAN_US == 800
BYTE_MAX == 255
PWM_WRAP == 31250
UINT16_MOD == 65536
\* README.md, Signal-to-PWM Mapping
COORD_PWM_MIN == 1000
COORD_PWM_MAX == 2000
MAX_SLEW_US == 50
\* README.md, packet firmware
NUM_MOTORS == 1
MOTOR_MIN_US == 1200
MOTOR_MAX_US == 2700
PACKET_START == 170
PACKET_END == 85
\* line 487, for a build with num_motors motors
packet_bytes(num_motors) == 1 + (num_motors * 2) + 1
PACKET_BYTES == packet_bytes(NUM_MOTORS)
\* README.md, Packet Format: the documented packet of a full Pico
DOC_PACKET_MOTORS == 9
DOC_PACKET_BYTES == 21
\* pico2_spi_pwm_v1.c: the SPI transmit FIFO that lines 159-165 fill holds
\* eight bytes
SPI_TX_FIFO_DEPTH == 8
\* pico2_spi_pwm_v0.c, the address-record program (lines 1-210)
V0_NUM_MOTORS == 1
V0_MOTOR_MIN_US == 1000
V0_MOTOR_MAX_US == 2000
RECORD_START == 165
RECORD_END == 90
THIS_PICO_ID == 0
PICO_ID_BITS == 2
MOTOR_ID_BITS == 4
PICO_ID_MASK == (2 ^ PICO_ID_BITS) - 1
MOTOR_ID_MASK == (2 ^ MOTOR_ID_BITS) - 1
\* pico2_spi_pwm_v0.c, the frame sniffer (lines 211-393)
SN_PACKET_START == 170
SN_PACKET_END == 85
BYTES_PER_MOTOR == 2
SN_INDEX_LIMIT == 100
buffer_limit == MOTORS_PER_PICO * BYTES_PER_MOTOR
OFFSET(pico) == 1 + (pico * MOTORS_PER_PICO * BYTES_PER_MOTOR)
\* init_all_pwms and set_motor_pwm_us of README.md (lines 489-525) and of
\* part_001 (lines 27-71)
INIT_PWM_WRAP == 31250
PWM_PERIOD_US == 16000
P1_NUM_MOTORS == 2
INTENSITY_MAX == 100

(***************************************************************************)
(* Bounds of the model                                                     *)
(***************************************************************************)
\* bytes the coordinator clocks out in one run (two frames)
MaxBytes == 72
\* bytes lost on the bus in one run
MaxDrops == 1
\* sync edges the coordinator fails to raise in one run
MaxMissed == 1
\* bytes the SPI receive FIFO holds before the coordinator has to wait
FifoDepth == 2
\* the clock saturates this many ticks after the last processed sync edge
MaxTicks == 2

\* targets handed to the coordinator's shaping step: from TargetLow to
\* TargetHigh, the multiples of TargetGrid and their successors
TargetLow == 900
TargetHigh == 2100
TargetGrid == 25

\* packets the packet firmware reads in one run
MaxPackets == 3
MaxNoise == 5
MaxRecords == 1
MaxSyncs == 2

\* one tick of the model's clock, in microseconds: the watchdog window, so that
\* "exactly 200 ms" (one tick) and "more than 200 ms" (two) are both reached
TickUs == SAFETY_TIMEOUT_US

Motors == 0 .. (MOTORS_PER_PICO - 1)
Bytes == 0 .. BYTE_MAX

(***************************************************************************)
(* Raw byte -> pulse width -> PWM level                                    *)
(***************************************************************************)

\* mutant: the raw_val == 0 test of line 197 is missing
target_pwm_cfg_nozero(raw_val, active_min, active_span) ==
  LET t == (active_min + (raw_val * active_span) \div BYTE_MAX) % UINT16_MOD
  IN  IF t > MAX_PULSE_US THEN MAX_PULSE_US ELSE t

\* mutant: the product of line 203 is kept in 16 bits
target_pwm_cfg_wrap16(raw_val, active_min, active_span) ==
  LET t == IF raw_val = 0
           THEN IDLE_PULSE_US
           ELSE (active_min + ((raw_val * active_span) % UINT16_MOD) \div BYTE_MAX)
                  % UINT16_MOD
  IN  IF t > MAX_PULSE_US THEN MAX_PULSE_US ELSE t

\* mutant: the mapping the comment of lines 201-202 describes, 1 -> active_min
target_pwm_cfg_from_1(raw_val, active_min, active_span) ==
  LET t == IF raw_val = 0
           THEN IDLE_PULSE_US
           ELSE (active_min + ((raw_val - 1) * active_span) \div (BYTE_MAX - 1))
                  % UINT16_MOD
  IN  IF t > MAX_PULSE_US THEN MAX_PULSE_US ELSE t

\* lines 196-207 with the two constants of line 203 as parameters
target_pwm_cfg(raw_val, active_min, active_span) ==
  LET t == IF raw_val = 0
           THEN IDLE_PULSE_US
           ELSE (active_min + (raw_val * active_span) \div BYTE_MAX) % UINT16_MOD
  IN  IF t > MAX_PULSE_US THEN MAX_PULSE_US ELSE t

\* lines 196-207 as compiled
target_pwm(raw_val) == target_pwm_cfg(raw_val, ACTIVE_MIN_US, ACTIVE_SPAN_US)

\* set_motor_pwm_us, lines 69-70: the pulse width after the clamp
clamp_pulse_us(pulse_us) ==
  IF pulse_us < IDLE_PULSE_US THEN IDLE_PULSE_US
  ELSE IF pulse_us > MAX_PULSE_US THEN MAX_PULSE_US
  ELSE pulse_us

\* set_motor_pwm_us, lines 73-74: pulse_us * 2.34375f truncated to uint16_t
\* (2.34375 = 75/32, and the product is exact in single precision)
pwm_level(pulse_us) ==
  LET level == ((clamp_pulse_us(pulse_us) * 75) \div 32) % UINT16_MOD
  IN  IF level > PWM_WRAP THEN PWM_WRAP ELSE level

(***************************************************************************)
(* State                                                                   *)
(***************************************************************************)
VARIABLES
  PICO_ID,              \* board identifier, fixed at build time
  motor_values,         \* incoming values from SPI
  active_frame_buffer,  \* latched values
  sync_pulse_detected,  \* set by the IRQ, cleared by the main loop
  sync_counter,         \* counts sync pulses for the LED
  byte_index,           \* position in the 36-byte frame
  led,                  \* LED_PIN
  pulse_us,             \* per motor: the pulse width last commanded (after the clamp)
  level,                \* per motor: the level last written to the PWM hardware
  since_sync_us,        \* get_absolute_time() - last_sync_time, saturating
  pc,                   \* the main loop's position: "A", "B" or "C"
  fifo,                 \* the SPI receive FIFO
  tx_frame,             \* coordinator: number of the frame being transmitted (1, 2, ...)
  tx_pos,               \* coordinator: bytes of that frame already clocked out
  fill,                 \* coordinator: << b >> when every byte sent is b, else << >>
  edges,                \* history: sync edges raised
  latches,              \* history: latch-and-apply steps performed
  edge_frame,           \* history: the frame completed before the latest sync edge
  dropped,              \* history: bytes lost on the bus
  drop_frame,           \* history: the frame that lost a byte (0: none)
  missed,               \* history: sync edges not raised
  failsafe,             \* history: watchdog expired and no sync edge processed since
  resumed,              \* history: the latest step B latched while in fail-safe
  map_cfg,              \* mapping check: <<active_min, active_span>>
  map_in,               \* mapping check: the two raw bytes
  map_out,              \* mapping check: their pulses
  map_pc,               \* mapping check: "in" or "done"
  prev_pwm,             \* coordinator shaping: the previous tick's transmitted value
  pwm_target,           \* coordinator shaping: the latest tick's target
  pwm_final,            \* coordinator shaping: the latest tick's final value
  packet,               \* packet firmware: the bytes of the latest spi_read_blocking
  pending_pwm,          \* packet firmware: per motor, the decoded pulse widths
  pending_valid,        \* packet firmware: pending_pwm waits to be applied
  sync_triggered,       \* packet firmware: set by on_sync_edge
  pkt_pulse_us,         \* packet firmware: per motor, the pulse width last commanded
  pkt_pc,               \* packet firmware: "read", "validate", "check" or "apply"
  pkts_read,            \* history: packets read so far
  pending_id,           \* history: the number of the packet pending_pwm was decoded from
  applied_ids,          \* history: the numbers of the packets applied
  sync_at,              \* history: packets read when the latest sync edge rose
  enc_n,                \* packet encoder: the number of motors of the Pico
  enc_val,              \* packet encoder: the pulse width of motor 0
  enc_pkt,              \* packet encoder: the bytes written so far
  frame_buffer,         \* v1: latest 36-byte frame from SPI
  frame_index,          \* v1: position of the next byte in frame_buffer
  frame_complete,       \* v1: at least one full frame since the last latch
  spi_tx,               \* v1: bytes waiting in the SPI transmit FIFO
  tx_i,                 \* v1: the preload loop's counter
  parser,               \* v0: the record parser (state, address, pwm_value)
  pending_pwm_us,       \* v0: per motor, the value waiting for the sync edge
  pending_fresh,        \* v0: per motor, a value has arrived since the last apply
  v0_feed,              \* v0: the bytes still to be read from SPI
  v0_rec,               \* v0: address and value of the record that was sent
  v0_calls,             \* v0: calls of handle_complete_record so far
  v0_args,              \* v0: arguments of its latest call
  v0_hist,              \* v0: the last five bytes the parser consumed
  v0_noise,             \* v0: free bytes sent so far
  v0_records,           \* v0: well-formed records sent so far
  v0_sync_triggered,    \* v0: sync_triggered, set by on_sync_edge
  v0_syncs,             \* v0: rising edges on the sync pin so far
  v0_level,             \* v0: per motor, the PWM compare level
  v0_since,             \* v0: per motor, records accepted since the last apply
  v0_accepts,           \* v0: records accepted so far
  v0_applies,           \* v0: calls of set_motor_pwm_us by apply_pending_values
  v0_from,              \* v0: the parser's state when the latest record was sent
  sn_pico,              \* sniffer: PICO_ID of the build
  header_found,         \* sniffer: inside a frame
  sn_index,             \* sniffer: frame_index, position in the global packet
  next_frame_buffer,    \* sniffer: this node's 18 bytes
  sn_frame,             \* sniffer: the frame that is sent
  sn_feed,              \* sniffer: its bytes still to be read
  sn_stores,            \* sniffer: writes to next_frame_buffer so far
  ip_variant,           \* init_all_pwms: "README" or "part_001"
  ip_i,                 \* init_all_pwms: the loop counter i
  pwm_wrap,             \* init_all_pwms: the global pwm_wrap
  ip_level,             \* init_all_pwms: per motor, the PWM compare level
  ip_pc                 \* init_all_pwms: "loop", "returned" or "main"

fw_vars == << PICO_ID, motor_values, active_frame_buffer, sync_pulse_detected,
              sync_counter, byte_index, led, pulse_us, level, since_sync_us, pc >>
env_vars == << fifo, tx_frame, tx_pos, fill >>
hist_vars == << edges, latches, edge_frame, dropped, drop_frame, missed, failsafe,
               resumed >>
map_vars == << map_cfg, map_in, map_out, map_pc >>
\* the state of the components checked on their own
shape_vars == << prev_pwm, pwm_target, pwm_final >>
pkt_vars == << packet, pending_pwm, pending_valid, sync_triggered, pkt_pulse_us,
              pkt_pc, pkts_read, pending_id, applied_ids, sync_at >>
enc_vars == << enc_n, enc_val, enc_pkt >>
\* the firmware variants and the packet encoder
v1_vars == << frame_buffer, frame_index, frame_complete, spi_tx, tx_i >>
v0_vars == << parser, pending_pwm_us, pending_fresh, v0_feed, v0_rec, v0_calls, v0_args >>
v0s_vars == << v0_hist, v0_noise, v0_records, v0_sync_triggered, v0_syncs, v0_level,
              v0_since, v0_accepts, v0_applies, v0_from >>
sn_vars == << sn_pico, header_found, sn_index, next_frame_buffer, sn_frame, sn_feed,
             sn_stores >>
ip_vars == << ip_variant, ip_i, pwm_wrap, ip_level, ip_pc >>
ext2_vars == << sn_vars, ip_vars >>
ext_vars == << enc_vars, v1_vars, v0_vars, v0s_vars, ext2_vars >>
other_vars == << map_vars, shape_vars, pkt_vars, ext_vars >>
vars == << fw_vars, env_vars, hist_vars, other_vars >>

\* mutant: the ranges are laid out eight motors apart
my_start_8(id) == id * (MOTORS_PER_PICO - 1)

\* lines 38-39 for the board whose PICO_ID is id
my_start(id) == id * MOTORS_PER_PICO
my_end(id) == my_start(id) + MOTORS_PER_PICO

MY_START == my_start(PICO_ID)
MY_END == my_end(PICO_ID)

\* the byte the coordinator sends at position pos of frame f: every byte of a
\* run is different and nonzero, so a stored byte tells its frame and position
Payload(f, pos) == (f - 1) * FRAME_BYTES + pos + 1
FrameOf(b) == ((b - 1) \div FRAME_BYTES) + 1
PosOf(b) == (b - 1) % FRAME_BYTES

\* bytes the coordinator has clocked out so far, lost ones included
BytesOut == (tx_frame - 1) * FRAME_BYTES + tx_pos

\* this node's nine bytes of frame f
Slice(f) == [i \in Motors |-> Payload(f, MY_START + i)]

AllIdle ==
  \A i \in Motors : pulse_us[i] = IDLE_PULSE_US /\ level[i] = pwm_level(IDLE_PULSE_US)

(***************************************************************************)
(* Boot: main(), lines 110-155                                             *)
(***************************************************************************)
MapIdle ==
  /\ map_cfg = << ACTIVE_MIN_US, ACTIVE_SPAN_US >>
  /\ map_in = << 0, 0 >>
  /\ map_out = << 0, 0 >>
  /\ map_pc = "off"

Boot ==
  /\ PICO_ID \in 0 .. (NUM_PICOS - 1)
  /\ motor_values = [i \in Motors |-> 0]
  /\ active_frame_buffer = [i \in Motors |-> 0]
  /\ sync_pulse_detected = FALSE
  /\ sync_counter = 0
  /\ byte_index = 0
  /\ led = TRUE
  /\ pulse_us = [i \in Motors |-> clamp_pulse_us(IDLE_PULSE_US)]
  /\ level = [i \in Motors |-> pwm_level(IDLE_PULSE_US)]
  /\ since_sync_us = 0
  /\ pc = "A"
  /\ fifo = << >>
  /\ tx_frame = 1
  /\ tx_pos = 0
  /\ edges = 0
  /\ latches = 0
  /\ edge_frame = 0
  /\ dropped = 0
  /\ drop_frame = 0
  /\ missed = 0
  /\ failsafe = FALSE
  /\ resumed = FALSE

\* the coordinator sends frames of distinct bytes
PayloadStream == fill = << >>

\* the coordinator's shaping state before the first tick: the previous value
\* is seeded at the idle value
ShapeBoot ==
  /\ prev_pwm = COORD_PWM_MIN
  /\ pwm_target = COORD_PWM_MIN
  /\ pwm_final = COORD_PWM_MIN

PktMotors == 0 .. (NUM_MOTORS - 1)

\* README.md lines 490-495, set_motor_pwm_us: the pulse width after the clamp
pkt_clamp_us(us) ==
  IF us < MOTOR_MIN_US THEN MOTOR_MIN_US
  ELSE IF us > MOTOR_MAX_US THEN MOTOR_MAX_US
  ELSE us

\* the packet firmware when main() enters its loop, README.md lines 528-562:
\* the globals as initialised, every motor started at its minimum
PktBoot ==
  /\ packet = [k \in 1 .. PACKET_BYTES |-> 0]
  /\ pending_pwm = [i \in PktMotors |-> 0]
  /\ pending_valid = FALSE
  /\ sync_triggered = FALSE
  /\ pkt_pulse_us = [i \in PktMotors |-> pkt_clamp_us(MOTOR_MIN_US)]
  /\ pkt_pc = "read"
  /\ pkts_read = 0
  /\ pending_id = 0
  /\ applied_ids = {}
  /\ sync_at = 0

\* the packet encoder before a packet is written
EncBoot ==
  /\ enc_n = NUM_MOTORS
  /\ enc_val = MOTOR_MIN_US
  /\ enc_pkt = << >>

\* pico2_spi_pwm_v1.c, lines 46-49: the statics as initialised
V1Boot ==
  /\ frame_buffer = [k \in 0 .. (FRAME_BYTES - 1) |-> 0]
  /\ frame_index = 0
  /\ frame_complete = FALSE
  /\ spi_tx = 0
  /\ tx_i = 0

V0Motors == 0 .. (V0_NUM_MOTORS - 1)

\* pico2_spi_pwm_v0.c, line 54 and init_all_pwms lines 100-102; no byte has
\* been sent
V0Boot ==
  /\ parser = [state |-> "STREAM_WAIT_START", address |-> 0, pwm_value |-> 0]
  /\ pending_pwm_us = [i \in V0Motors |-> V0_MOTOR_MIN_US]
  /\ pending_fresh = [i \in V0Motors |-> FALSE]
  /\ v0_feed = << >>
  /\ v0_rec = << 0, 0 >>
  /\ v0_calls = 0
  /\ v0_args = << >>

\* pico2_spi_pwm_v0.c, line 57 and init_all_pwms line 103: no edge yet, every
\* output at its minimum; nothing consumed, accepted or applied
V0StreamBoot ==
  /\ v0_hist = << >>
  /\ v0_noise = 0
  /\ v0_records = 0
  /\ v0_sync_triggered = FALSE
  /\ v0_syncs = 0
  /\ v0_level = [i \in V0Motors |-> V0_MOTOR_MIN_US]
  /\ v0_since = [i \in V0Motors |-> 0]
  /\ v0_accepts = 0
  /\ v0_applies = 0
  /\ v0_from = "STREAM_WAIT_START"

\* pico2_spi_pwm_v0.c, lines 221, 258 and 350-351: the sniffer before the
\* first byte; no frame has been sent
SnBoot ==
  /\ sn_pico = 0
  /\ header_found = FALSE
  /\ sn_index = 0
  /\ next_frame_buffer = [j \in 0 .. (buffer_limit - 1) |-> 0]
  /\ sn_frame = << >>
  /\ sn_feed = << >>
  /\ sn_stores = 0

\* README.md line 471 (part_001 line 17): pwm_wrap is a global without
\* initialiser; the compare levels are those of the hardware after reset
IpBoot ==
  /\ ip_variant = "README"
  /\ ip_i = 0
  /\ pwm_wrap = 0
  /\ ip_level = [i \in 0 .. (NUM_MOTORS - 1) |-> 0]
  /\ ip_pc = "loop"

Ext2Boot == SnBoot /\ IpBoot

ExtBoot == EncBoot /\ V1Boot /\ V0Boot /\ V0StreamBoot /\ Ext2Boot

Init == Boot /\ PayloadStream /\ MapIdle /\ ShapeBoot /\ PktBoot /\ ExtBoot

(***************************************************************************)
(* Coordinator and bus                                                     *)
(***************************************************************************)

\* the next byte of the frame is clocked into the receive FIFO
SendByte ==
  /\ BytesOut < MaxBytes
  /\ tx_pos < FRAME_BYTES
  /\ Len(fifo) < FifoDepth
  /\ fifo' = Append(fifo, IF fill = << >> THEN Payload(tx_frame, tx_pos) ELSE fill[1])
  /\ tx_pos' = tx_pos + 1
  /\ UNCHANGED << fw_vars, tx_frame, fill, hist_vars, other_vars >>

\* the next byte of the frame is lost on the bus
DropByte ==
  /\ BytesOut < MaxBytes
  /\ tx_pos < FRAME_BYTES
  /\ dropped < MaxDrops
  /\ tx_pos' = tx_pos + 1
  /\ dropped' = dropped + 1
  /\ drop_frame' = tx_frame
  /\ UNCHANGED << fw_vars, fifo, tx_frame, fill, edges, latches, edge_frame, missed,
                  failsafe, resumed, other_vars >>

\* mutant: the interrupt handler takes the snapshot itself
sync_irq_handler_latch ==
  /\ sync_pulse_detected' = TRUE
  /\ active_frame_buffer' = motor_values
  /\ IF sync_counter + 1 >= LED_TOGGLE_SYNCS
     THEN /\ led' = ~led
          /\ sync_counter' = 0
     ELSE /\ led' = led
          /\ sync_counter' = sync_counter + 1
  /\ UNCHANGED << PICO_ID, motor_values, byte_index, pulse_us, level,
                  since_sync_us, pc >>

\* sync_irq_handler, lines 93-104, run on the rising edge the coordinator
\* raises after the last byte of a frame
sync_irq_handler ==
  /\ sync_pulse_detected' = TRUE
  /\ IF sync_counter + 1 >= LED_TOGGLE_SYNCS
     THEN /\ led' = ~led
          /\ sync_counter' = 0
     ELSE /\ led' = led
          /\ sync_counter' = sync_counter + 1
  /\ UNCHANGED << PICO_ID, motor_values, active_frame_buffer, byte_index,
                  pulse_us, level, since_sync_us, pc >>

SyncEdge ==
  /\ tx_pos = FRAME_BYTES
  /\ sync_irq_handler
  /\ tx_frame' = tx_frame + 1
  /\ tx_pos' = 0
  /\ edges' = edges + 1
  /\ edge_frame' = tx_frame
  /\ UNCHANGED << fifo, fill, latches, dropped, drop_frame, missed, failsafe,
                  resumed, other_vars >>

\* the coordinator goes on to the next frame without a sync edge
MissedEdge ==
  /\ tx_pos = FRAME_BYTES
  /\ missed < MaxMissed
  /\ tx_frame' = tx_frame + 1
  /\ tx_pos' = 0
  /\ missed' = missed + 1
  /\ UNCHANGED << fw_vars, fifo, fill, edges, latches, edge_frame, dropped,
                  drop_frame, failsafe, resumed, other_vars >>

\* time passes; one iteration of the main loop is far shorter than a tick, so
\* the clock is advanced between iterations
Tick ==
  /\ pc = "A"
  /\ since_sync_us < MaxTicks * TickUs
  /\ since_sync_us' = since_sync_us + TickUs
  /\ UNCHANGED << PICO_ID, motor_values, active_frame_buffer, sync_pulse_detected,
                  sync_counter, byte_index, led, pulse_us, level, pc,
                  env_vars, hist_vars, other_vars >>

(***************************************************************************)
(* Main loop, lines 160-228                                                *)
(***************************************************************************)

\* mutant: the stream position wraps to 0 after 36 bytes
store_byte_wrap(rx) ==
  LET idx == byte_index
  IN  /\ byte_index' = (byte_index + 1) % FRAME_BYTES
      /\ motor_values' = IF idx >= MY_START /\ idx < MY_END
                         THEN [motor_values EXCEPT ![idx - MY_START] = rx]
                         ELSE motor_values

\* mutant: a byte beyond the 36th is stored as if it were the 36th
store_byte_beyond(rx) ==
  LET idx == IF byte_index < FRAME_BYTES THEN byte_index ELSE FRAME_BYTES - 1
  IN  /\ byte_index' = IF byte_index < FRAME_BYTES THEN byte_index + 1 ELSE byte_index
      /\ motor_values' = IF idx >= MY_START /\ idx < MY_END
                         THEN [motor_values EXCEPT ![idx - MY_START] = rx]
                         ELSE motor_values

\* mutant: every byte is stored, at its position modulo the node's motor count
store_byte_any(rx) ==
  LET idx == byte_index
  IN  /\ byte_index' = IF byte_index < FRAME_BYTES THEN byte_index + 1 ELSE byte_index
      /\ motor_values' = [motor_values EXCEPT ![idx % MOTORS_PER_PICO] = rx]

\* step A, lines 168-178: one received byte
store_byte(rx) ==
  LET idx == byte_index
  IN  /\ byte_index' = IF byte_index < FRAME_BYTES THEN byte_index + 1 ELSE byte_index
      /\ motor_values' = IF idx >= MY_START /\ idx < MY_END
                         THEN [motor_values EXCEPT ![idx - MY_START] = rx]
                         ELSE motor_values

\* mutant: a byte for one of this node's motors is driven to the output as it
\* is received
StepA_drive ==
  /\ pc = "A"
  /\ IF fifo # << >>
     THEN /\ store_byte(Head(fifo))
          /\ fifo' = Tail(fifo)
          /\ pc' = "A"
          /\ IF byte_index >= MY_START /\ byte_index < MY_END
             THEN /\ pulse_us' = [pulse_us EXCEPT ![byte_index - MY_START] =
                                    clamp_pulse_us(target_pwm(Head(fifo)))]
                  /\ level' = [level EXCEPT ![byte_index - MY_START] =
                                    pwm_level(target_pwm(Head(fifo)))]
             ELSE UNCHANGED << pulse_us, level >>
     ELSE /\ pc' = "B"
          /\ UNCHANGED << byte_index, motor_values, fifo, pulse_us, level >>
  /\ UNCHANGED << PICO_ID, active_frame_buffer, sync_pulse_detected, sync_counter,
                  led, since_sync_us, tx_frame, tx_pos, fill, hist_vars, other_vars >>

\* step A, lines 165-179: one pass of the while loop
StepA ==
  /\ pc = "A"
  /\ IF fifo # << >>
     THEN /\ store_byte(Head(fifo))
          /\ fifo' = Tail(fifo)
          /\ pc' = "A"
     ELSE /\ pc' = "B"
          /\ UNCHANGED << byte_index, motor_values, fifo >>
  /\ UNCHANGED << PICO_ID, active_frame_buffer, sync_pulse_detected, sync_counter,
                  led, pulse_us, level, since_sync_us, tx_frame, tx_pos, fill,
                  hist_vars, other_vars >>

\* mutant: last_sync_time is not refreshed by the latch
latch_keeps_last_sync_time ==
  /\ sync_pulse_detected' = FALSE
  /\ since_sync_us' = since_sync_us
  /\ active_frame_buffer' = motor_values
  /\ pulse_us' = [i \in Motors |-> clamp_pulse_us(target_pwm(motor_values[i]))]
  /\ level' = [i \in Motors |-> pwm_level(target_pwm(motor_values[i]))]
  /\ byte_index' = 0

\* mutant: the latch resets the stream position only after a full frame
latch_resets_if_full ==
  /\ sync_pulse_detected' = FALSE
  /\ since_sync_us' = 0
  /\ active_frame_buffer' = motor_values
  /\ pulse_us' = [i \in Motors |-> clamp_pulse_us(target_pwm(motor_values[i]))]
  /\ level' = [i \in Motors |-> pwm_level(target_pwm(motor_values[i]))]
  /\ byte_index' = IF byte_index = FRAME_BYTES THEN 0 ELSE byte_index

\* mutant: the latch commands 1000 + 8 * raw without the clamps of lines 207
\* and 69-70
latch_unclamped ==
  /\ sync_pulse_detected' = FALSE
  /\ since_sync_us' = 0
  /\ active_frame_buffer' = motor_values
  /\ pulse_us' = [i \in Motors |-> IDLE_PULSE_US + 8 * motor_values[i]]
  /\ level' = [i \in Motors |-> ((IDLE_PULSE_US + 8 * motor_values[i]) * 75) \div 32]
  /\ byte_index' = 0

\* step B, lines 184-213: the latch
latch_and_apply ==
  /\ sync_pulse_detected' = FALSE
  /\ since_sync_us' = 0
  /\ active_frame_buffer' = motor_values
  /\ pulse_us' = [i \in Motors |-> clamp_pulse_us(target_pwm(motor_values[i]))]
  /\ level' = [i \in Motors |-> pwm_level(target_pwm(motor_values[i]))]
  /\ byte_index' = 0

\* step B, lines 183-214
StepB ==
  /\ pc = "B"
  /\ pc' = "C"
  /\ IF sync_pulse_detected
     THEN /\ latch_and_apply
          /\ latches' = latches + 1
          /\ failsafe' = FALSE
          /\ resumed' = failsafe
     ELSE /\ resumed' = FALSE
          /\ UNCHANGED << sync_pulse_detected, since_sync_us, active_frame_buffer,
                          pulse_us, level, byte_index, latches, failsafe >>
  /\ UNCHANGED << PICO_ID, motor_values, sync_counter, led, env_vars,
                  edges, edge_frame, dropped, drop_frame, missed, other_vars >>

\* mutant: the watchdog fires at 200 ms
watchdog_expired_at_200 == since_sync_us >= SAFETY_TIMEOUT_US

\* step C, line 219: the watchdog condition
watchdog_expired == since_sync_us > SAFETY_TIMEOUT_US

\* mutant: the emergency stop loop ends one motor early
emergency_stop_short ==
  /\ pulse_us' = [i \in Motors |-> IF i < MOTORS_PER_PICO - 1
                                    THEN clamp_pulse_us(IDLE_PULSE_US)
                                    ELSE pulse_us[i]]
  /\ level' = [i \in Motors |-> IF i < MOTORS_PER_PICO - 1
                                 THEN pwm_level(IDLE_PULSE_US)
                                 ELSE level[i]]
  /\ led' \in BOOLEAN

\* step C, lines 221-226: the LED follows the millisecond clock, which the
\* model does not keep: either value
emergency_stop ==
  /\ pulse_us' = [i \in Motors |-> clamp_pulse_us(IDLE_PULSE_US)]
  /\ level' = [i \in Motors |-> pwm_level(IDLE_PULSE_US)]
  /\ led' \in BOOLEAN

\* step C, lines 219-227
StepC ==
  /\ pc = "C"
  /\ pc' = "A"
  /\ IF watchdog_expired
     THEN /\ emergency_stop
          /\ failsafe' = TRUE
     ELSE UNCHANGED << pulse_us, level, led, failsafe >>
  /\ UNCHANGED << PICO_ID, motor_values, active_frame_buffer, sync_pulse_detected,
                  sync_counter, byte_index, since_sync_us, env_vars,
                  edges, latches, edge_frame, dropped, drop_frame, missed, resumed,
                  other_vars >>

Next ==
  \/ SendByte
  \/ SyncEdge
  \/ MissedEdge
  \/ Tick
  \/ StepA
  \/ StepB
  \/ StepC

\* lossless bus, every interleaving of coordinator, interrupt, clock and main loop
Spec == Init /\ [][Next]_vars

\* the main loop keeps running
FairSpec == Spec /\ WF_vars(StepA \/ StepB \/ StepC)

\* the main loop keeps running and time keeps passing
TimedFairSpec == FairSpec /\ WF_vars(Tick)

\* a bus that loses bytes; the clock is left out, as alignment does not read it
LossyNext ==
  \/ SendByte
  \/ DropByte
  \/ SyncEdge
  \/ StepA
  \/ StepB
  \/ StepC

LossySpec == Init /\ [][LossyNext]_vars

(***************************************************************************)
(* One frame whose 36 bytes all have the same value, then the sync edge,   *)
(* then silence: every byte value on node 0, and the mid-range byte on     *)
(* each of the four nodes                                                  *)
(***************************************************************************)
MidByte == 128

FillConfigs ==
  { << id, MidByte >> : id \in 0 .. (NUM_PICOS - 1) } \cup { << 0, b >> : b \in Bytes }

FillInit ==
  /\ Boot
  /\ MapIdle
  /\ ShapeBoot
  /\ PktBoot
  /\ ExtBoot
  /\ \E b \in Bytes : fill = << b >> /\ << PICO_ID, b >> \in FillConfigs

\* the coordinator sends the only frame
SendOnlyFrame == tx_frame = 1 /\ SendByte

FillNext ==
  \/ SendOnlyFrame
  \/ SyncEdge
  \/ Tick
  \/ StepA
  \/ StepB
  \/ StepC

FillSpec == FillInit /\ [][FillNext]_vars

(***************************************************************************)
(* The raw byte -> pulse mapping on its own: every byte, several           *)
(* configurations of the active range                                      *)
(***************************************************************************)
MapConfigs == { << ACTIVE_MIN_US, ACTIVE_SPAN_US >>, << 1100, 900 >>, << 1500, 400 >> }

MapInit ==
  /\ Boot
  /\ PayloadStream
  /\ ShapeBoot
  /\ PktBoot
  /\ ExtBoot
  /\ PICO_ID = 0
  /\ map_cfg \in MapConfigs
  /\ map_in \in Bytes \X Bytes
  /\ map_out = << 0, 0 >>
  /\ map_pc = "in"

\* what the latch loop commands for one raw byte: lines 194-209 and 69-70
commanded_pulse_cfg(raw_val, cfg) == clamp_pulse_us(target_pwm_cfg(raw_val, cfg[1], cfg[2]))

MapApply ==
  /\ map_pc = "in"
  /\ map_out' = << commanded_pulse_cfg(map_in[1], map_cfg),
                   commanded_pulse_cfg(map_in[2], map_cfg) >>
  /\ map_pc' = "done"
  /\ UNCHANGED << fw_vars, env_vars, hist_vars, map_cfg, map_in, shape_vars,
                  pkt_vars, ext_vars >>

MapNext == MapApply

MapSpec == MapInit /\ [][MapNext]_vars

(***************************************************************************)
(* The coordinator's shaping step, README.md lines 75-90, in whole         *)
(* microseconds                                                            *)
(***************************************************************************)

\* np.clip
clip(x, lo, hi) == IF x < lo THEN lo ELSE IF x > hi THEN hi ELSE x

\* mutant: the change is not limited
pwm_delta_unlimited(target, prev) == target - prev

\* line 85
pwm_delta(target, prev) == clip(target - prev, 0 - MAX_SLEW_US, MAX_SLEW_US)
\* line 86
pwm_safe(target, prev) == prev + pwm_delta(target, prev)
\* line 89
final_clamp(target, prev) == clip(pwm_safe(target, prev), COORD_PWM_MIN, COORD_PWM_MAX)

ShapeTargets == { t \in TargetLow .. TargetHigh : t % TargetGrid \in {0, 1} }

ShapeInit == Init /\ PICO_ID = 0

\* one tick of the coordinator for one channel: the final value is
\* transmitted and becomes the next tick's previous value
ShapeTick ==
  /\ \E t \in ShapeTargets :
       /\ pwm_target' = t
       /\ pwm_final' = final_clamp(t, prev_pwm)
  /\ prev_pwm' = pwm_final'
  /\ UNCHANGED << fw_vars, env_vars, hist_vars, map_vars, pkt_vars, ext_vars >>

ShapeNext == ShapeTick

ShapeSpec == ShapeInit /\ [][ShapeNext]_vars

(***************************************************************************)
(* The packet firmware of README.md, lines 452-585: main loop and sync     *)
(* interrupt                                                               *)
(***************************************************************************)
non_pkt_vars == << fw_vars, env_vars, hist_vars, map_vars, shape_vars, ext_vars >>

\* pulse widths the coordinator encodes: below, inside and above the motor's range
PktValues == { 768, 1500, 2816 }
\* first and last bytes found in what spi_read_blocking returns
PktMarks == { PACKET_START, PACKET_END, 0 }

\* README.md lines 288-296: 16-bit big-endian values of motors 0 .. n-1
RECURSIVE encode_pwm(_, _)
encode_pwm(vals, n) ==
  IF n = 0 THEN << >>
  ELSE encode_pwm(vals, n - 1) \o << vals[n - 1] \div 256, vals[n - 1] % 256 >>

PktPackets ==
  { << st >> \o encode_pwm(vals, NUM_MOTORS) \o << en >> :
      st \in PktMarks, en \in PktMarks, vals \in [PktMotors -> PktValues] }

\* lines 569-571: motor i's value in the packet (the packet's bytes are
\* numbered from 1 here)
decode_pwm(pkt, i) == ((pkt[1 + (i * 2) + 1] * 256) + pkt[1 + (i * 2) + 2]) % UINT16_MOD

\* line 567: the framing test
packet_framed == packet[1] = PACKET_START /\ packet[PACKET_BYTES] = PACKET_END

\* lines 532-536
on_sync_edge ==
  /\ sync_triggered' = TRUE
  /\ sync_at' = pkts_read
  /\ UNCHANGED << packet, pending_pwm, pending_valid, pkt_pulse_us, pkt_pc,
                  pkts_read, pending_id, applied_ids, non_pkt_vars >>

\* line 564: spi_read_blocking returns with PACKET_BYTES bytes
PktRead ==
  /\ pkt_pc = "read"
  /\ pkts_read < MaxPackets
  /\ packet' \in PktPackets
  /\ pkts_read' = pkts_read + 1
  /\ pkt_pc' = "validate"
  /\ UNCHANGED << pending_pwm, pending_valid, sync_triggered, pkt_pulse_us,
                  pending_id, applied_ids, sync_at, non_pkt_vars >>

\* mutant: only the start byte is tested
PktValidate_start_only ==
  /\ pkt_pc = "validate"
  /\ pkt_pc' = "check"
  /\ IF packet[1] = PACKET_START
     THEN /\ pending_pwm' = [i \in PktMotors |-> decode_pwm(packet, i)]
          /\ pending_valid' = TRUE
          /\ pending_id' = pkts_read
     ELSE UNCHANGED << pending_pwm, pending_valid, pending_id >>
  /\ UNCHANGED << packet, sync_triggered, pkt_pulse_us, pkts_read, applied_ids,
                  sync_at, non_pkt_vars >>

\* lines 567-574
PktValidate ==
  /\ pkt_pc = "validate"
  /\ pkt_pc' = "check"
  /\ IF packet_framed
     THEN /\ pending_pwm' = [i \in PktMotors |-> decode_pwm(packet, i)]
          /\ pending_valid' = TRUE
          /\ pending_id' = pkts_read
     ELSE UNCHANGED << pending_pwm, pending_valid, pending_id >>
  /\ UNCHANGED << packet, sync_triggered, pkt_pulse_us, pkts_read, applied_ids,
                  sync_at, non_pkt_vars >>

\* line 577: the test of the two flags
PktCheck ==
  /\ pkt_pc = "check"
  /\ pkt_pc' = IF sync_triggered /\ pending_valid THEN "apply" ELSE "read"
  /\ UNCHANGED << packet, pending_pwm, pending_valid, sync_triggered, pkt_pulse_us,
                  pkts_read, pending_id, applied_ids, sync_at, non_pkt_vars >>

\* lines 578-582
PktApply ==
  /\ pkt_pc = "apply"
  /\ pkt_pc' = "read"
  /\ sync_triggered' = FALSE
  /\ pkt_pulse_us' = [i \in PktMotors |-> pkt_clamp_us(pending_pwm[i])]
  /\ pending_valid' = FALSE
  /\ applied_ids' = applied_ids \cup {pending_id}
  /\ UNCHANGED << packet, pending_pwm, pkts_read, pending_id, sync_at, non_pkt_vars >>

PktInit == Init /\ PICO_ID = 0

PktNext ==
  \/ on_sync_edge
  \/ PktRead
  \/ PktValidate
  \/ PktCheck
  \/ PktApply

PktSpec == PktInit /\ [][PktNext]_vars

(***************************************************************************)
(* The packet of README.md lines 288-296, written byte by byte for a Pico  *)
(* of 1 to 9 motors                                                        *)
(***************************************************************************)
\* everything but the variants and the encoder
base_vars == << fw_vars, env_vars, hist_vars, map_vars, shape_vars, pkt_vars >>
BaseBoot == Boot /\ PICO_ID = 0 /\ PayloadStream /\ MapIdle /\ ShapeBoot /\ PktBoot

\* motor i of the packet carries enc_val + i
EncValues == [i \in 0 .. (enc_n - 1) |-> enc_val + i]
EncPacket == << PACKET_START >> \o encode_pwm(EncValues, enc_n) \o << PACKET_END >>
EncDone == Len(enc_pkt) = Len(EncPacket)

EncInit ==
  /\ BaseBoot
  /\ V1Boot
  /\ V0Boot
  /\ V0StreamBoot
  /\ Ext2Boot
  /\ enc_n \in 1 .. DOC_PACKET_MOTORS
  /\ enc_val \in PktValues
  /\ enc_pkt = << >>

EncByte ==
  /\ ~EncDone
  /\ enc_pkt' = Append(enc_pkt, EncPacket[Len(enc_pkt) + 1])
  /\ UNCHANGED << enc_n, enc_val, base_vars, v1_vars, v0_vars, v0s_vars, ext2_vars >>

EncNext == EncByte

EncSpec == EncInit /\ [][EncNext]_vars

(***************************************************************************)
(* pico2_spi_pwm_v1.c: the whole 36-byte frame is buffered, the latch      *)
(* waits for frame_complete and preloads the node's nine bytes into the    *)
(* SPI transmit FIFO.  Interrupt handler, mapping, set_motor_pwm_us and    *)
(* watchdog are those of firmware_template.c, and so are the coordinator   *)
(* and the variables they use; motor_values and byte_index are not used.   *)
(***************************************************************************)
non_v1_vars == << map_vars, shape_vars, pkt_vars, enc_vars, v0_vars, v0s_vars, ext2_vars >>

\* a byte is clocked in; the same clocks shift one byte out of the transmit FIFO
V1SendByte ==
  /\ BytesOut < MaxBytes
  /\ tx_pos < FRAME_BYTES
  /\ Len(fifo) < FifoDepth
  /\ fifo' = Append(fifo, IF fill = << >> THEN Payload(tx_frame, tx_pos) ELSE fill[1])
  /\ tx_pos' = tx_pos + 1
  /\ spi_tx' = IF spi_tx > 0 THEN spi_tx - 1 ELSE 0
  /\ UNCHANGED << fw_vars, tx_frame, fill, hist_vars, frame_buffer, frame_index,
                  frame_complete, tx_i, non_v1_vars >>

\* time passes between iterations and while the preload loop waits
V1Tick ==
  /\ pc \in {"A", "TX"}
  /\ since_sync_us < MaxTicks * TickUs
  /\ since_sync_us' = since_sync_us + TickUs
  /\ UNCHANGED << PICO_ID, motor_values, active_frame_buffer, sync_pulse_detected,
                  sync_counter, byte_index, led, pulse_us, level, pc,
                  env_vars, hist_vars, other_vars >>

\* lines 133-143: one pass of the receive loop
V1StepA ==
  /\ pc = "A"
  /\ IF fifo # << >>
     THEN /\ frame_buffer' = [frame_buffer EXCEPT ![frame_index] = Head(fifo)]
          /\ IF frame_index + 1 >= FRAME_BYTES
             THEN frame_index' = 0 /\ frame_complete' = TRUE
             ELSE frame_index' = frame_index + 1 /\ frame_complete' = frame_complete
          /\ fifo' = Tail(fifo)
          /\ pc' = "A"
     ELSE /\ pc' = "B"
          /\ UNCHANGED << frame_buffer, frame_index, frame_complete, fifo >>
  /\ UNCHANGED << PICO_ID, motor_values, active_frame_buffer, sync_pulse_detected,
                  sync_counter, byte_index, led, pulse_us, level, since_sync_us,
                  tx_frame, tx_pos, fill, hist_vars, spi_tx, tx_i, non_v1_vars >>

\* lines 146-155: the test of the two flags and the copy of the node's bytes
V1StepB ==
  /\ pc = "B"
  /\ IF sync_pulse_detected /\ frame_complete
     THEN /\ sync_pulse_detected' = FALSE
          /\ frame_complete' = FALSE
          /\ since_sync_us' = 0
          /\ active_frame_buffer' = [i \in Motors |-> frame_buffer[MY_START + i]]
          /\ tx_i' = 0
          /\ pc' = "TX"
          /\ latches' = latches + 1
          /\ failsafe' = FALSE
     ELSE /\ pc' = "C"
          /\ UNCHANGED << sync_pulse_detected, frame_complete, since_sync_us,
                          active_frame_buffer, tx_i, latches, failsafe >>
  /\ UNCHANGED << PICO_ID, motor_values, sync_counter, byte_index, led, pulse_us,
                  level, env_vars, edges, edge_frame, dropped, drop_frame, missed,
                  resumed, frame_buffer, frame_index, spi_tx, non_v1_vars >>

\* lines 159-165: one byte of the preload, written once the transmit FIFO
\* has space
V1Preload ==
  /\ pc = "TX"
  /\ spi_tx < SPI_TX_FIFO_DEPTH
  /\ spi_tx' = spi_tx + 1
  /\ tx_i' = tx_i + 1
  /\ pc' = IF tx_i + 1 < MOTORS_PER_PICO THEN "TX" ELSE "PWM"
  /\ UNCHANGED << PICO_ID, motor_values, active_frame_buffer, sync_pulse_detected,
                  sync_counter, byte_index, led, pulse_us, level, since_sync_us,
                  env_vars, hist_vars, frame_buffer, frame_index, frame_complete,
                  non_v1_vars >>

\* lines 168-179
V1Apply ==
  /\ pc = "PWM"
  /\ pc' = "C"
  /\ pulse_us' = [i \in Motors |-> clamp_pulse_us(target_pwm(active_frame_buffer[i]))]
  /\ level' = [i \in Motors |-> pwm_level(target_pwm(active_frame_buffer[i]))]
  /\ UNCHANGED << PICO_ID, motor_values, active_frame_buffer, sync_pulse_detected,
                  sync_counter, byte_index, led, since_sync_us, env_vars, hist_vars,
                  other_vars >>

\* lines 183-188, the same statements as lines 219-227 of firmware_template.c
V1StepC == StepC

V1Next ==
  \/ V1SendByte
  \/ SyncEdge
  \/ V1Tick
  \/ V1StepA
  \/ V1StepB
  \/ V1Preload
  \/ V1Apply
  \/ V1StepC

V1Spec == Init /\ [][V1Next]_vars

\* the main loop keeps running and time keeps passing
V1FairSpec ==
  /\ V1Spec
  /\ WF_vars(V1StepA \/ V1StepB \/ V1Preload \/ V1Apply \/ V1StepC)
  /\ WF_vars(V1Tick)

\* a bus that loses bytes; the clock is left out
V1LossyNext ==
  \/ V1SendByte
  \/ DropByte
  \/ SyncEdge
  \/ V1StepA
  \/ V1StepB
  \/ V1Preload
  \/ V1Apply
  \/ V1StepC

V1LossySpec == Init /\ [][V1LossyNext]_vars

(***************************************************************************)
(* pico2_spi_pwm_v0.c, first program: the parser of address records        *)
(* [0xA5, ADDR, LSB, MSB, 0x5A].  One record is sent and read byte by byte. *)
(***************************************************************************)
\* bitwise OR of two naturals
RECURSIVE bit_or(_, _)
bit_or(a, b) ==
  IF a = 0 THEN b
  ELSE IF b = 0 THEN a
  ELSE (IF a % 2 = 1 \/ b % 2 = 1 THEN 1 ELSE 0) + 2 * bit_or(a \div 2, b \div 2)

\* lines 63-68; called with motor < NUM_MOTORS only
clamp_pwm(motor, us) ==
  IF motor >= V0_NUM_MOTORS THEN us
  ELSE IF us < V0_MOTOR_MIN_US THEN V0_MOTOR_MIN_US
  ELSE IF us > V0_MOTOR_MAX_US THEN V0_MOTOR_MAX_US
  ELSE us

\* mutant: the Pico id is everything above the motor id
pico_id_unmasked(address) == address \div (2 ^ MOTOR_ID_BITS)

\* lines 110-111: the two fields of an address byte
pico_id_of(address) == (address \div (2 ^ MOTOR_ID_BITS)) % (PICO_ID_MASK + 1)
motor_id_of(address) == address % (MOTOR_ID_MASK + 1)

\* lines 109-117; the call and its arguments are recorded
handle_complete_record(address, pwm_value) ==
  /\ v0_calls' = v0_calls + 1
  /\ v0_args' = << address, pwm_value >>
  /\ IF pico_id_of(address) # THIS_PICO_ID \/ motor_id_of(address) >= V0_NUM_MOTORS
     THEN UNCHANGED << pending_pwm_us, pending_fresh, v0_since, v0_accepts >>
     ELSE /\ pending_pwm_us' = [pending_pwm_us EXCEPT
                                  ![motor_id_of(address)] =
                                    clamp_pwm(motor_id_of(address), pwm_value)]
          /\ pending_fresh' = [pending_fresh EXCEPT ![motor_id_of(address)] = TRUE]
          /\ v0_since' = [v0_since EXCEPT ![motor_id_of(address)] = @ + 1]
          /\ v0_accepts' = v0_accepts + 1

\* the parser leaves everything but its state alone
V0OnlyState(st) ==
  /\ parser' = [parser EXCEPT !.state = st]
  /\ UNCHANGED << pending_pwm_us, pending_fresh, v0_calls, v0_args, v0_since, v0_accepts >>

\* mutant: any byte but 0xA5 ends the record
wait_end_any(byte) ==
  IF byte # RECORD_START
  THEN /\ handle_complete_record(parser.address, parser.pwm_value)
       /\ parser' = [parser EXCEPT !.state = "STREAM_WAIT_START"]
  ELSE V0OnlyState("STREAM_WAIT_ADDRESS")

\* mutant: 0xA5 in place of the end byte is dropped like any other byte
wait_end_no_restart(byte) ==
  IF byte = RECORD_END
  THEN /\ handle_complete_record(parser.address, parser.pwm_value)
       /\ parser' = [parser EXCEPT !.state = "STREAM_WAIT_START"]
  ELSE V0OnlyState("STREAM_WAIT_START")

\* lines 136-145, case STREAM_WAIT_END
wait_end(byte) ==
  IF byte = RECORD_END
  THEN /\ handle_complete_record(parser.address, parser.pwm_value)
       /\ parser' = [parser EXCEPT !.state = "STREAM_WAIT_START"]
  ELSE IF byte = RECORD_START
  THEN V0OnlyState("STREAM_WAIT_ADDRESS")
  ELSE V0OnlyState("STREAM_WAIT_START")

\* lines 119-147
process_spi_byte(byte) ==
  CASE parser.state = "STREAM_WAIT_START" ->
         IF byte = RECORD_START
         THEN V0OnlyState("STREAM_WAIT_ADDRESS")
         ELSE V0OnlyState("STREAM_WAIT_START")
    [] parser.state = "STREAM_WAIT_ADDRESS" ->
         IF byte = RECORD_START
         THEN V0OnlyState("STREAM_WAIT_ADDRESS")
         ELSE /\ parser' = [parser EXCEPT !.address = byte,
                                          !.state = "STREAM_WAIT_PWM_LSB"]
              /\ UNCHANGED << pending_pwm_us, pending_fresh, v0_calls, v0_args, v0_since, v0_accepts >>
    [] parser.state = "STREAM_WAIT_PWM_LSB" ->
         IF byte = RECORD_START
         THEN V0OnlyState("STREAM_WAIT_ADDRESS")
         ELSE /\ parser' = [parser EXCEPT !.pwm_value = byte,
                                          !.state = "STREAM_WAIT_PWM_MSB"]
              /\ UNCHANGED << pending_pwm_us, pending_fresh, v0_calls, v0_args, v0_since, v0_accepts >>
    [] parser.state = "STREAM_WAIT_PWM_MSB" ->
         IF byte = RECORD_START
         THEN V0OnlyState("STREAM_WAIT_ADDRESS")
         ELSE /\ parser' = [parser EXCEPT
                              !.pwm_value = bit_or(parser.pwm_value,
                                                   (byte * 256) % UINT16_MOD),
                              !.state = "STREAM_WAIT_END"]
              /\ UNCHANGED << pending_pwm_us, pending_fresh, v0_calls, v0_args, v0_since, v0_accepts >>
    [] parser.state = "STREAM_WAIT_END" -> wait_end(byte)

\* line 20: the five bytes of the record for an address and a 16-bit value
record_bytes(address, pwm_value) ==
  << RECORD_START, address, pwm_value % 256, pwm_value \div 256, RECORD_END >>

\* address bytes and values that are sent
V0Addrs == {0, 1, 16, 37, 64, 90, 165, 255}
V0Values == {0, 90, 165, 1000, 1445, 1500, 2000, 23130, 42240, 42405, 65535}

V0Init ==
  /\ BaseBoot
  /\ EncBoot
  /\ V1Boot
  /\ parser = [state |-> "STREAM_WAIT_START", address |-> 0, pwm_value |-> 0]
  /\ pending_pwm_us = [i \in V0Motors |-> V0_MOTOR_MIN_US]
  /\ pending_fresh = [i \in V0Motors |-> FALSE]
  /\ v0_calls = 0
  /\ v0_args = << >>
  /\ V0StreamBoot
  /\ Ext2Boot
  /\ \E a \in V0Addrs, v \in V0Values :
       /\ v0_rec = << a, v >>
       /\ v0_feed = record_bytes(a, v)

\* the last five elements of a sequence
last_five(q) == IF Len(q) <= 5 THEN q ELSE SubSeq(q, Len(q) - 4, Len(q))

\* lines 191-195: one byte is read and parsed
V0Byte ==
  /\ v0_feed # << >>
  /\ process_spi_byte(Head(v0_feed))
  /\ v0_feed' = Tail(v0_feed)
  /\ v0_hist' = last_five(Append(v0_hist, Head(v0_feed)))
  /\ UNCHANGED << v0_rec, v0_noise, v0_records, v0_sync_triggered, v0_syncs, v0_level,
                  v0_applies, v0_from, base_vars, enc_vars, v1_vars, ext2_vars >>

V0Next == V0Byte

V0Spec == V0Init /\ [][V0Next]_vars

(***************************************************************************)
(* pico2_spi_pwm_v0.c, first program: the main loop of lines 189-201 on a  *)
(* stream of free bytes followed by well-formed records, and on a stream   *)
(* of records with sync edges.                                             *)
(***************************************************************************)
\* the free bytes: fields, 0x5A and 0xA5
V0NoiseBytes == {0, 16, RECORD_END, RECORD_START}
\* records with no 0xA5 in any field
V0CleanAddrs == {0, 16, 64}
V0CleanValues == {1500, 23130}

V0StreamInit == BaseBoot /\ ExtBoot

\* a byte that belongs to no record is read and parsed (lines 191-195); the
\* free bytes come before the records
V0Noise ==
  /\ v0_feed = << >>
  /\ v0_records = 0
  /\ v0_noise < MaxNoise
  /\ \E b \in V0NoiseBytes :
       /\ process_spi_byte(b)
       /\ v0_hist' = last_five(Append(v0_hist, b))
  /\ v0_noise' = v0_noise + 1
  /\ UNCHANGED << v0_feed, v0_rec, v0_records, v0_sync_triggered, v0_syncs, v0_level,
                  v0_applies, v0_from, base_vars, enc_vars, v1_vars, ext2_vars >>

\* the coordinator sends a record
V0SendRecord ==
  /\ v0_feed = << >>
  /\ v0_records < MaxRecords
  /\ \E a \in V0CleanAddrs, v \in V0CleanValues :
       /\ v0_rec' = << a, v >>
       /\ v0_feed' = record_bytes(a, v)
  /\ v0_records' = v0_records + 1
  /\ v0_from' = parser.state
  /\ UNCHANGED << parser, pending_pwm_us, pending_fresh, v0_calls, v0_args, v0_hist,
                  v0_noise, v0_sync_triggered, v0_syncs, v0_level, v0_since,
                  v0_accepts, v0_applies, base_vars, enc_vars, v1_vars, ext2_vars >>

\* lines 158-160, on_sync_edge
V0SyncEdge ==
  /\ v0_syncs < MaxSyncs
  /\ v0_syncs' = v0_syncs + 1
  /\ v0_sync_triggered' = TRUE
  /\ UNCHANGED << v0_vars, v0_hist, v0_noise, v0_records, v0_level, v0_since,
                  v0_accepts, v0_applies, v0_from, base_vars, enc_vars, v1_vars, ext2_vars >>

\* lines 70-76, set_motor_pwm_us: the level written for a pulse width
v0_level_of(motor, us) == clamp_pwm(motor, us)

\* the motors apply_pending_values writes (lines 149-156)
V0Fresh == {i \in V0Motors : pending_fresh[i]}

\* mutant: apply_pending_values leaves the fresh flags set
V0Apply_keep_fresh ==
  /\ v0_sync_triggered
  /\ v0_sync_triggered' = FALSE
  /\ v0_level' = [i \in V0Motors |->
                    IF pending_fresh[i] THEN v0_level_of(i, pending_pwm_us[i])
                    ELSE v0_level[i]]
  /\ v0_applies' = v0_applies + Cardinality(V0Fresh)
  /\ v0_since' = [i \in V0Motors |-> 0]
  /\ UNCHANGED << parser, pending_pwm_us, pending_fresh, v0_feed, v0_rec, v0_calls,
                  v0_args, v0_hist, v0_noise, v0_records, v0_syncs, v0_accepts,
                  v0_from, base_vars, enc_vars, v1_vars, ext2_vars >>

\* lines 198-201 with apply_pending_values, lines 149-156
V0Apply ==
  /\ v0_sync_triggered
  /\ v0_sync_triggered' = FALSE
  /\ v0_level' = [i \in V0Motors |->
                    IF pending_fresh[i] THEN v0_level_of(i, pending_pwm_us[i])
                    ELSE v0_level[i]]
  /\ pending_fresh' = [i \in V0Motors |-> FALSE]
  /\ v0_applies' = v0_applies + Cardinality(V0Fresh)
  /\ v0_since' = [i \in V0Motors |-> 0]
  /\ UNCHANGED << parser, pending_pwm_us, v0_feed, v0_rec, v0_calls, v0_args, v0_hist,
                  v0_noise, v0_records, v0_syncs, v0_accepts, v0_from, base_vars,
                  enc_vars, v1_vars, ext2_vars >>

\* free bytes, then records; no sync edge
V0NoiseNext ==
  \/ V0Noise
  \/ V0SendRecord
  \/ V0Byte

V0NoiseSpec == V0StreamInit /\ [][V0NoiseNext]_vars

\* records and sync edges
V0SyncNext ==
  \/ V0SendRecord
  \/ V0Byte
  \/ V0SyncEdge
  \/ V0Apply

V0SyncSpec == V0StreamInit /\ [][V0SyncNext]_vars

(***************************************************************************)
(* pico2_spi_pwm_v0.c, second program: the frame sniffer of lines 354-385. *)
(* One frame [0xAA, 72 data bytes, 0x55] is sent and read byte by byte.    *)
(***************************************************************************)
SN_FRAME_BYTES == 1 + (TOTAL_MOTORS * BYTES_PER_MOTOR) + 1

\* the data byte at a frame position is the position, but for one position
\* that carries a chosen byte (position 0: none)
SnSpecialPositions == {0, 1, 2, 18, 19, 20, 37, 55, 72}
SnSpecialBytes == {0, SN_PACKET_END, SN_PACKET_START, 200}

sn_frame_of(pos, byte) ==
  [k \in 1 .. SN_FRAME_BYTES |->
     IF k = 1 THEN SN_PACKET_START
     ELSE IF k = SN_FRAME_BYTES THEN SN_PACKET_END
     ELSE IF k - 1 = pos THEN byte
     ELSE k - 1]

SnInit ==
  /\ BaseBoot
  /\ EncBoot
  /\ V1Boot
  /\ V0Boot
  /\ V0StreamBoot
  /\ IpBoot
  /\ sn_pico \in 0 .. (NUM_PICOS - 1)
  /\ header_found = FALSE
  /\ sn_index = 0
  /\ next_frame_buffer = [j \in 0 .. (buffer_limit - 1) |-> 0]
  /\ sn_stores = 0
  /\ \E pos \in SnSpecialPositions, b \in SnSpecialBytes :
       sn_frame = sn_frame_of(pos, b)
  /\ sn_feed = sn_frame

\* lines 360-384: what the sniffer does with a byte that was read
sniff(rx) ==
  IF ~header_found
  THEN /\ IF rx = SN_PACKET_START
          THEN header_found' = TRUE /\ sn_index' = 1
          ELSE UNCHANGED << header_found, sn_index >>
       /\ UNCHANGED << next_frame_buffer, sn_stores >>
  ELSE /\ IF sn_index >= OFFSET(sn_pico) /\ sn_index < OFFSET(sn_pico) + buffer_limit
          THEN /\ next_frame_buffer' =
                    [next_frame_buffer EXCEPT ![sn_index - OFFSET(sn_pico)] = rx]
               /\ sn_stores' = sn_stores + 1
          ELSE UNCHANGED << next_frame_buffer, sn_stores >>
       /\ IF rx = SN_PACKET_END \/ sn_index + 1 > SN_INDEX_LIMIT
          THEN header_found' = FALSE /\ sn_index' = 0
          ELSE header_found' = TRUE /\ sn_index' = sn_index + 1

\* lines 356-385: one byte is read and sniffed
SnByte ==
  /\ sn_feed # << >>
  /\ sniff(Head(sn_feed))
  /\ sn_feed' = Tail(sn_feed)
  /\ UNCHANGED << sn_pico, sn_frame, base_vars, enc_vars, v1_vars, v0_vars, v0s_vars,
                  ip_vars >>

SnNext == SnByte

SnSpec == SnInit /\ [][SnNext]_vars

(***************************************************************************)
(* init_all_pwms with the set_motor function it calls, in README.md (lines *)
(* 489-525, NUM_MOTORS = 1) and in part_001 (lines 27-71, NUM_MOTORS = 2), *)
(* followed by the calls the main loop makes.                              *)
(***************************************************************************)
ip_num_motors == IF ip_variant = "README" THEN NUM_MOTORS ELSE P1_NUM_MOTORS
IpMotors == 0 .. (ip_num_motors - 1)

\* README.md lines 498-499, part_001 lines 44-45: the compare level for a
\* pulse width under a wrap value (the float product is truncated)
level_for(us, wrap) ==
  LET l == ((us * (wrap + 1)) \div PWM_PERIOD_US) % UINT16_MOD
  IN  IF l > wrap THEN wrap ELSE l

\* part_001 lines 32-41: the pulse width for an intensity
pulse_of_intensity(intensity) ==
  IF intensity = 0 THEN MOTOR_MIN_US
  ELSE IF intensity >= INTENSITY_MAX THEN MOTOR_MAX_US
  ELSE MOTOR_MIN_US + ((intensity * (MOTOR_MAX_US - MOTOR_MIN_US)) \div INTENSITY_MAX)

\* pulse widths and intensities the main loop commands
IpPulses == {1000, 1200, 1500, 2000, 2700, 3000}
IpIntensities == {0, 10, 20, 30, 40, 50, 60, 70, 80, 90, 100, 200}

\* what the variant's main loop can pass on as a pulse width
IpCommands ==
  IF ip_variant = "README"
  THEN {pkt_clamp_us(us) : us \in IpPulses}
  ELSE {pulse_of_intensity(c) : c \in IpIntensities}

IpInit ==
  /\ BaseBoot
  /\ EncBoot
  /\ V1Boot
  /\ V0Boot
  /\ V0StreamBoot
  /\ SnBoot
  /\ ip_variant \in {"README", "part_001"}
  /\ ip_i = 0
  /\ pwm_wrap = 0
  /\ ip_level = [i \in IpMotors |-> 0]
  /\ ip_pc = "loop"

\* one pass of the loop, README.md lines 506-520 (part_001 lines 54-68): the
\* motor is started at its minimum with the pwm_wrap of that moment
IpLoop ==
  /\ ip_pc = "loop"
  /\ ip_i < ip_num_motors
  /\ ip_level' = [ip_level EXCEPT ![ip_i] = level_for(MOTOR_MIN_US, pwm_wrap)]
  /\ ip_i' = ip_i + 1
  /\ UNCHANGED << ip_variant, pwm_wrap, ip_pc, base_vars, enc_vars, v1_vars, v0_vars,
                  v0s_vars, sn_vars >>

\* README.md line 524 (part_001 line 70), and the return
IpReturn ==
  /\ ip_pc = "loop"
  /\ ip_i >= ip_num_motors
  /\ pwm_wrap' = INIT_PWM_WRAP
  /\ ip_pc' = "returned"
  /\ UNCHANGED << ip_variant, ip_i, ip_level, base_vars, enc_vars, v1_vars, v0_vars,
                  v0s_vars, sn_vars >>

\* a later call from the main loop, README.md line 580 (part_001 line 100)
IpSet ==
  /\ ip_pc \in {"returned", "main"}
  /\ ip_pc' = "main"
  /\ \E i \in IpMotors, us \in IpCommands :
       ip_level' = [ip_level EXCEPT ![i] = level_for(us, pwm_wrap)]
  /\ UNCHANGED << ip_variant, ip_i, pwm_wrap, base_vars, enc_vars, v1_vars, v0_vars,
                  v0s_vars, sn_vars >>

IpNext ==
  \/ IpLoop
  \/ IpReturn
  \/ IpSet

IpSpec == IpInit /\ [][IpNext]_vars

(***************************************************************************)
(* Properties                                                              *)
(***************************************************************************)

\* step B is about to latch: the main loop is at step B with the flag set
AtLatch == pc = "B" /\ sync_pulse_detected
\* step B latches in this step
Latch == AtLatch /\ pc' = "C"
\* what the latch commands for the latched bytes
MirrorsLatched ==
  \A i \in Motors :
    /\ pulse_us[i] = clamp_pulse_us(target_pwm(active_frame_buffer[i]))
    /\ level[i] = pwm_level(target_pwm(active_frame_buffer[i]))

\* C1: on a stream of complete frames, each followed by its sync edge, every
\* latch copies this node's nine bytes of the frame completed before the
\* latest edge into active_frame_buffer.
C1_LatchTakesLatestFrame ==
  [][(Latch /\ dropped = 0 /\ missed = 0) => active_frame_buffer' = Slice(edge_frame)]_vars

\* C2: once more than SAFETY_TIMEOUT_US have passed since the last processed
\* sync edge, the main loop drives all motors to the idle pulse (or processes
\* a sync edge), whatever the buffers hold.
C2_WatchdogForcesIdle == watchdog_expired ~> (AllIdle \/ ~watchdog_expired)

C2_Witness ==
  /\ failsafe
  /\ AllIdle
  /\ \A i \in Motors : active_frame_buffer[i] # 0 /\ motor_values[i] # 0

\* C3: from the expiry of the watchdog until a sync edge is processed every
\* motor output is at idle, whatever bytes are received in between.
C3_FailsafeHoldsIdle == failsafe => AllIdle

C3_Witness ==
  /\ failsafe
  /\ AllIdle
  /\ latches = 0
  /\ byte_index = FRAME_BYTES
  /\ motor_values = Slice(1)

\* C4: the latch that ends fail-safe copies motor_values to
\* active_frame_buffer, drives the mapped outputs and restarts the watchdog
\* window, and the watchdog check that follows in the same iteration leaves
\* the node armed with these outputs.
C4_ResumeOnSync ==
  resumed =>
    /\ ~failsafe
    /\ MirrorsLatched
    /\ pc = "C" => since_sync_us = 0 /\ active_frame_buffer = motor_values /\ byte_index = 0

C4_Witness ==
  /\ resumed
  /\ pc = "A"
  /\ \A i \in Motors : pulse_us[i] > IDLE_PULSE_US

\* C5: after the sync edge that ends a frame with a lost byte has been
\* processed, every byte of a later frame is drained with byte_index equal to
\* its position in its frame.
C5_AlignedAfterSync ==
  ( /\ drop_frame # 0
    /\ edge_frame >= drop_frame
    /\ ~sync_pulse_detected
    /\ pc = "A"
    /\ fifo # << >>
    /\ FrameOf(Head(fifo)) > drop_frame )
  => byte_index = PosOf(Head(fifo))

\* C6: when step B latches, the receive FIFO holds no byte that was
\* transmitted before the latest sync edge.
C6_FifoDrainedAtLatch ==
  AtLatch => \A k \in 1 .. Len(fifo) : FrameOf(fifo[k]) > edge_frame

\* C7: every sync edge results in exactly one latch: the edges raised are the
\* latches performed plus the one edge still flagged.
C7_OneLatchPerEdge ==
  edges = latches + (IF sync_pulse_detected THEN 1 ELSE 0)

\* C8: raw byte 0 maps to the idle pulse, below the active range, for every
\* configuration of the active range.
C8_ZeroIsIdle ==
  map_pc = "done" =>
    \A k \in 1 .. 2 :
      map_in[k] = 0 => map_out[k] = IDLE_PULSE_US /\ map_out[k] < map_cfg[1]

C8_Witness ==
  /\ map_pc = "done"
  /\ map_in[1] = 0
  /\ map_out[1] = IDLE_PULSE_US
  /\ map_cfg # << ACTIVE_MIN_US, ACTIVE_SPAN_US >>

CodeCfg == map_cfg = << ACTIVE_MIN_US, ACTIVE_SPAN_US >>

\* C9: with the constants of the code the mapping is non-decreasing over
\* 1..255, and every such pulse is above the idle pulse.
C9_Monotone ==
  (map_pc = "done" /\ CodeCfg /\ 1 <= map_in[1] /\ map_in[1] <= map_in[2]) =>
    /\ map_out[1] <= map_out[2]
    /\ map_out[1] > IDLE_PULSE_US

C9_Witness ==
  /\ map_pc = "done"
  /\ CodeCfg
  /\ map_in = << 1, BYTE_MAX >>
  /\ map_out[1] < map_out[2]

\* C10: with the constants of the code, byte 1 maps to 1200 us, byte 255 to
\* 2000 us and every byte of 1..255 into [1200, 2000].
C10_CoversActiveRange ==
  (map_pc = "done" /\ CodeCfg /\ map_in[1] >= 1) =>
    /\ map_in[1] = 1 => map_out[1] = ACTIVE_MIN_US
    /\ map_in[1] = BYTE_MAX => map_out[1] = ACTIVE_MIN_US + ACTIVE_SPAN_US
    /\ map_out[1] >= ACTIVE_MIN_US
    /\ map_out[1] <= ACTIVE_MIN_US + ACTIVE_SPAN_US

\* mapped pulse and its PWM level are what set_motor_pwm_us may write
InPulseRange(i) ==
  /\ pulse_us[i] >= IDLE_PULSE_US
  /\ pulse_us[i] <= MAX_PULSE_US
  /\ level[i] = (pulse_us[i] * 75) \div 32

\* C11: in every reachable state (boot, latch, watchdog expiry) and for every
\* raw byte 0..255, the pulse width written for each motor lies in
\* [1000, 2000] us and the PWM level is that pulse width's level.
C11_PulseInRange == \A i \in Motors : InPulseRange(i)

C11_Witness ==
  /\ fill = << BYTE_MAX >>
  /\ latches = 1
  /\ ~failsafe
  /\ \A i \in Motors : active_frame_buffer[i] = BYTE_MAX /\ pulse_us[i] = MAX_PULSE_US

\* C12: after the one frame of bytes 128 and its sync edge have been latched,
\* all motors of each of the four nodes carry the pulse mapped from 128, and
\* once the watchdog has fired after the coordinator's silence they all carry
\* the idle pulse.
C12_EndToEnd ==
  (fill = << MidByte >> /\ latches = 1) =>
    IF failsafe
    THEN AllIdle
    ELSE \A i \in Motors : pulse_us[i] = target_pwm(MidByte)

C14_ByteTimeoutResets ==
  (byte_index > 0 /\ byte_index < FRAME_BYTES /\ fifo = << >>)
    ~> (byte_index = 0 \/ fifo # << >>)

Drain == pc = "A" /\ fifo # << >> /\ fifo' = Tail(fifo)

\* C15: every latch leaves byte_index at 0, whatever it was before: after
\* fewer than 36 bytes, after exactly 36 and after more than 36.
C15_SyncResetsPosition == [][Latch => byte_index' = 0]_vars

C15_Witness ==
  /\ pc = "C"
  /\ latches = 1
  /\ missed = 1
  /\ edge_frame = 2
  /\ since_sync_us = 0
  /\ fifo = << >>
  /\ byte_index = 0

\* the ranges of the four nodes are non-empty and lie end to end from 0 to 36,
\* so that every index 0..35 is in exactly one of them
RangesTile ==
  /\ my_start(0) = 0
  /\ my_end(NUM_PICOS - 1) = TOTAL_MOTORS
  /\ \A id \in 0 .. (NUM_PICOS - 1) : my_start(id) < my_end(id)
  /\ \A id \in 1 .. (NUM_PICOS - 1) : my_start(id) = my_end(id - 1)

\* C16: every motor index 0..35 lies in the range of exactly one node, and
\* no step changes a node's range.
C16_RangesPartition ==
  [][RangesTile /\ MY_START' = MY_START /\ MY_END' = MY_END]_vars

C16_Witness ==
  /\ PICO_ID = NUM_PICOS - 1
  /\ MY_END = TOTAL_MOTORS
  /\ latches = 1
  /\ active_frame_buffer = Slice(1)

\* C17: a byte drained at a position of this node's range is stored in the
\* slot of that position and in no other; a byte drained at any other position
\* below 36 changes no slot; in both cases byte_index advances by one.
C17_StoresOwnRangeOnly ==
  [][(Drain /\ byte_index < FRAME_BYTES) =>
       /\ byte_index' = byte_index + 1
       /\ IF MY_START <= byte_index /\ byte_index < MY_END
          THEN /\ motor_values'[byte_index - MY_START] = Head(fifo)
               /\ \A i \in Motors \ {byte_index - MY_START} :
                    motor_values'[i] = motor_values[i]
          ELSE motor_values' = motor_values]_vars

C17_Witness ==
  /\ PICO_ID = 1
  /\ latches = 0
  /\ byte_index = TOTAL_MOTORS - MOTORS_PER_PICO
  /\ motor_values = Slice(1)

\* C18: the step in which the sync interrupt runs changes none of
\* motor_values, active_frame_buffer, byte_index and the motor outputs; the
\* buffers and the outputs change only in steps of the main loop.
C18_IrqTouchesNoBuffer ==
  [][ /\ edges' # edges =>
           /\ sync_pulse_detected'
           /\ UNCHANGED << motor_values, active_frame_buffer, byte_index, pulse_us,
                           level >>
      /\ (motor_values' # motor_values \/ byte_index' # byte_index) =>
           (Drain \/ Latch)
      /\ (active_frame_buffer' # active_frame_buffer \/ pulse_us' # pulse_us
             \/ level' # level) =>
           (pc \in {"B", "C"} /\ pc' # pc) ]_vars

C18_Witness ==
  /\ sync_pulse_detected
  /\ sync_counter = 1
  /\ edges = 1
  /\ latches = 0
  /\ byte_index = FRAME_BYTES
  /\ motor_values = Slice(1)
  /\ \A i \in Motors : active_frame_buffer[i] = 0

\* C19: with the previous value seeded at idle, every tick's final value is
\* within [1000, 2000] and at most 50 away from the previous tick's final
\* value (from the seed, on the first tick), whatever the targets.
C19_SlewLimited ==
  [][ /\ pwm_final' >= COORD_PWM_MIN
      /\ pwm_final' <= COORD_PWM_MAX
      /\ pwm_final' - pwm_final <= MAX_SLEW_US
      /\ pwm_final - pwm_final' <= MAX_SLEW_US
      /\ prev_pwm = pwm_final ]_shape_vars

C19_Witness ==
  /\ pwm_target > COORD_PWM_MAX
  /\ pwm_final = COORD_PWM_MIN + MAX_SLEW_US + 1
  /\ prev_pwm = pwm_final

\* C20: pending_pwm and the setting of pending_valid change only in the
\* validation of a packet that starts with 0xAA and ends with 0x55; a packet
\* that fails either test leaves both unchanged; the outputs change only when
\* sync_triggered and pending_valid are both set; no packet is applied twice.
C20_FramedPacketsOnly ==
  [][ /\ (pending_pwm' # pending_pwm \/ (pending_valid' /\ ~pending_valid)) =>
           (pkt_pc = "validate" /\ packet_framed)
      /\ (pkt_pc = "validate" /\ ~packet_framed) =>
           UNCHANGED << pending_pwm, pending_valid >>
      /\ pkt_pulse_us' # pkt_pulse_us => (sync_triggered /\ pending_valid)
      /\ (pkt_pc = "apply" /\ pkt_pc' = "read") => pending_id \notin applied_ids
    ]_pkt_vars

C20_Witness ==
  /\ pkt_pc = "check"
  /\ pkts_read = MaxPackets
  /\ packet[1] = PACKET_START
  /\ packet[PACKET_BYTES] # PACKET_END
  /\ applied_ids = {1}
  /\ pending_id = 1
  /\ ~pending_valid
  /\ pending_pwm # [i \in PktMotors |-> decode_pwm(packet, i)]
  /\ pkt_pulse_us = [i \in PktMotors |-> 1500]

\* C21: a complete packet has as many bytes as the firmware's PACKET_BYTES
\* for the same number of motors, and for 9 motors that is the documented
\* 21 bytes: start byte, 9 two-byte values, end byte.
C21_PacketSize ==
  EncDone =>
    /\ Len(enc_pkt) = packet_bytes(enc_n)
    /\ enc_n = DOC_PACKET_MOTORS =>
         /\ packet_bytes(enc_n) = DOC_PACKET_BYTES
         /\ enc_pkt[1] = PACKET_START
         /\ enc_pkt[DOC_PACKET_BYTES] = PACKET_END
         /\ \A i \in 0 .. (enc_n - 1) : decode_pwm(enc_pkt, i) = enc_val + i

\* C22: a byte drained when 36 bytes have been counted changes neither
\* motor_values nor byte_index, on every node.
C22_ExtraBytesIgnored ==
  [][(Drain /\ byte_index = FRAME_BYTES) => UNCHANGED << motor_values, byte_index >>]_vars

C22_Witness ==
  /\ PICO_ID = NUM_PICOS - 1
  /\ edges = 0
  /\ missed = 1
  /\ tx_frame = 2
  /\ tx_pos = FRAME_BYTES
  /\ fifo = << >>
  /\ byte_index = FRAME_BYTES
  /\ motor_values = Slice(1)

\* C23: on a stream with no lost byte and no missed edge, the byte the main
\* loop is about to drain is at the position byte_index of its frame,
\* however the handling of the sync flag interleaves with the next frame.
C23_DrainedAtOwnPosition ==
  (missed = 0 /\ dropped = 0 /\ pc = "A" /\ fifo # << >>) =>
    byte_index = PosOf(Head(fifo))

\* C24: the outputs change only in the latch, to the pulses mapped from the
\* latched bytes, and in the watchdog branch, to idle; the drain of a byte
\* and the sync interrupt leave them alone, and so does step C while no
\* more than 200 ms have passed since the last processed sync edge.
C24_OutputsChangeInTwoPlaces ==
  [][ /\ (pulse_us' # pulse_us \/ level' # level) =>
           \/ Latch /\ MirrorsLatched'
           \/ pc = "C" /\ since_sync_us > SAFETY_TIMEOUT_US /\ AllIdle'
      /\ (Drain \/ edges' # edges) => UNCHANGED << pulse_us, level >>
      /\ (pc = "C" /\ pc' = "A" /\ since_sync_us <= SAFETY_TIMEOUT_US) =>
           UNCHANGED << pulse_us, level >> ]_vars

C24_Witness ==
  /\ pc = "A"
  /\ latches = 1
  /\ ~failsafe
  /\ since_sync_us = SAFETY_TIMEOUT_US
  /\ active_frame_buffer = Slice(1)
  /\ MirrorsLatched
  /\ byte_index = FRAME_BYTES

\* the pulse of the smallest nonzero byte, line 203
MinActivePulse == ACTIVE_MIN_US + ACTIVE_SPAN_US \div BYTE_MAX

C26_IdleUntilFirstLatch ==
  latches = 0 => (AllIdle /\ \A i \in Motors : active_frame_buffer[i] = 0)

C26_Witness ==
  /\ latches = 0
  /\ failsafe
  /\ sync_pulse_detected
  /\ edges = 1
  /\ byte_index = FRAME_BYTES
  /\ motor_values = Slice(1)
  /\ AllIdle

\* C27: in pico2_spi_pwm_v1.c, wherever the coordinator stops clocking the
\* bus, once more than 200 ms have passed since the last latch the main loop
\* drives all motors to idle.
C27_V1WatchdogReached ==
  (watchdog_expired /\ ~AllIdle) ~> (AllIdle \/ ~watchdog_expired)

\* the v1 main loop latches in its next step B
V1AtLatch == pc = "B" /\ sync_pulse_detected /\ frame_complete

\* C28: in pico2_spi_pwm_v1.c, once the sync edge that follows a frame with a
\* dropped byte has been raised, every byte of a later frame is stored at its
\* own position, and at a latch after a later frame frame_buffer[i] holds a
\* byte for motor i.
C28_V1RealignsAtSync ==
  /\ ( /\ drop_frame # 0
       /\ edge_frame >= drop_frame
       /\ pc = "A"
       /\ fifo # << >>
       /\ FrameOf(Head(fifo)) > drop_frame )
     => frame_index = PosOf(Head(fifo))
  /\ (V1AtLatch /\ drop_frame # 0 /\ edge_frame > drop_frame)
     => \A k \in 0 .. (FRAME_BYTES - 1) : PosOf(frame_buffer[k]) = k

\* C29: in pico2_spi_pwm_v1.c, on a stream without lost bytes, whenever the
\* main loop is about to latch, this node's nine bytes of frame_buffer are the
\* nine bytes of one frame the coordinator has sent.
C29_V1LatchesOneFrame ==
  V1AtLatch =>
    \E f \in 1 .. tx_frame :
      \A i \in Motors : frame_buffer[MY_START + i] = Payload(f, MY_START + i)

\* C30: in pico2_spi_pwm_v0.c, once the five bytes of a record have been read
\* by a parser that started in STREAM_WAIT_START, handle_complete_record has
\* been called exactly once, with the record's address and value, and the
\* parser is in STREAM_WAIT_START again.
C30_RecordAccepted ==
  v0_feed = << >> =>
    /\ v0_calls = 1
    /\ v0_args = v0_rec
    /\ parser.state = "STREAM_WAIT_START"

\* C31: in pico2_spi_pwm_v0.c, every call of handle_complete_record comes right
\* after the five bytes 0xA5, address, LSB, MSB, 0x5A, with that address and
\* that value as arguments; a byte that brings no call leaves pending_pwm_us
\* and pending_fresh as they were.
C31_CallOnlyAfterRecord ==
  [][ /\ v0_calls' # v0_calls =>
           /\ Len(v0_hist') = 5
           /\ v0_hist'[1] = RECORD_START
           /\ v0_hist'[5] = RECORD_END
           /\ v0_args' = << v0_hist'[2], v0_hist'[3] + (256 * v0_hist'[4]) >>
      /\ v0_calls' = v0_calls => UNCHANGED << pending_pwm_us, pending_fresh >>
    ]_vars

\* free bytes alone made up a record for this node, and it was accepted
C31_Witness ==
  /\ v0_records = 0
  /\ v0_calls = 1
  /\ v0_hist = << RECORD_START, 0, 0, 16, RECORD_END >>
  /\ pending_fresh[0]
  /\ pending_pwm_us[0] = V0_MOTOR_MAX_US

\* C32: in pico2_spi_pwm_v0.c, whatever state the free bytes left the parser
\* in, the end byte of a record without 0xA5 in its fields brings the call of
\* handle_complete_record with the record's address and value.
C32_ResyncOnRecord ==
  [][ (Len(v0_feed) = 1 /\ v0_feed' = << >>) =>
        /\ v0_calls' = v0_calls + 1
        /\ v0_args' = v0_rec
        /\ parser'.state = "STREAM_WAIT_START"
    ]_vars

\* a record that was sent while the parser waited for an end byte was read
\* to its end
C32_Witness ==
  /\ v0_records = 1
  /\ v0_from = "STREAM_WAIT_END"
  /\ v0_feed = << >>
  /\ v0_args = v0_rec
  /\ v0_calls = 1

\* C33: in pico2_spi_pwm_v0.c, a call of handle_complete_record whose address
\* has THIS_PICO_ID in bits 5..4 and a motor id below NUM_MOTORS in bits 3..0
\* marks that motor's entry fresh, stores the clamped value there and leaves
\* the other entries alone; a call with any other address changes neither
\* pending_pwm_us nor pending_fresh.
C33_OnlyOwnRecords ==
  [][ v0_calls' # v0_calls =>
        LET a == v0_args'[1]
            mine == ((a % 64) \div 16) = THIS_PICO_ID /\ (a % 16) < V0_NUM_MOTORS
        IN  IF mine
            THEN /\ pending_fresh'[a % 16]
                 /\ pending_pwm_us'[a % 16] >= V0_MOTOR_MIN_US
                 /\ pending_pwm_us'[a % 16] <= V0_MOTOR_MAX_US
                 /\ (v0_args'[2] >= V0_MOTOR_MIN_US /\ v0_args'[2] <= V0_MOTOR_MAX_US)
                      => pending_pwm_us'[a % 16] = v0_args'[2]
                 /\ \A i \in V0Motors \ {a % 16} :
                      /\ pending_pwm_us'[i] = pending_pwm_us[i]
                      /\ pending_fresh'[i] = pending_fresh[i]
            ELSE UNCHANGED << pending_pwm_us, pending_fresh >>
    ]_vars

\* a record whose address has bit 6 set and zero in bits 5..0 was accepted
\* for motor 0
C33_Witness ==
  /\ v0_calls = 1
  /\ v0_args = << 64, 1500 >>
  /\ pending_fresh[0]
  /\ pending_pwm_us[0] = 1500

\* the address-record main loop processes a sync edge in this step
V0Processes == v0_sync_triggered /\ ~v0_sync_triggered'

\* C34: in pico2_spi_pwm_v0.c, the step that processes a sync edge writes the
\* pending value of every motor that had a record accepted since the previous
\* processed edge and clears its fresh flag, and leaves the output of every
\* other motor alone; no other step changes an output, and the outputs are
\* written at most once per accepted record.
C34_AppliesFreshOnce ==
  [][ /\ V0Processes =>
           \A i \in V0Motors :
             IF v0_since[i] > 0
             THEN v0_level'[i] = pending_pwm_us[i] /\ ~pending_fresh'[i]
             ELSE v0_level'[i] = v0_level[i] /\ ~pending_fresh'[i]
      /\ ~V0Processes => v0_level' = v0_level
      /\ v0_applies' <= v0_accepts'
    ]_vars

\* an accepted record was applied once and a second sync edge was raised and
\* processed or merged
C34_Witness ==
  /\ v0_syncs = MaxSyncs
  /\ ~v0_sync_triggered
  /\ v0_accepts = 1
  /\ v0_applies = 1
  /\ v0_level[0] = 1500

\* C35: in the frame sniffer of pico2_spi_pwm_v0.c, once the 74 bytes of a
\* frame [0xAA, 72 data bytes, 0x55] have been read, next_frame_buffer holds
\* the 18 bytes of frame positions OFFSET..OFFSET+17, nothing else was stored,
\* and the sniffer searches for a header with frame_index 0.
C35_SnifferTakesOwnBytes ==
  sn_feed = << >> =>
    /\ \A j \in 0 .. (buffer_limit - 1) :
         next_frame_buffer[j] = sn_frame[OFFSET(sn_pico) + j + 1]
    /\ sn_stores = buffer_limit
    /\ ~header_found
    /\ sn_index = 0

\* C36: in the packet firmware of README.md, when the main loop is about to
\* apply pending_pwm, the latest sync edge rose after the packet that
\* pending_pwm was decoded from had been read.
C36_SyncAfterPacket == pkt_pc = "apply" => sync_at >= pending_id

\* C37: in README.md and part_001, when init_all_pwms has returned and the
\* main loop has not set a motor yet, every motor's compare level is the one
\* of its minimum pulse width under the wrap value 31250.
C37_StartsAtMinimum ==
  ip_pc = "returned" =>
    \A i \in IpMotors :
      ip_level[i] = (MOTOR_MIN_US * (INIT_PWM_WRAP + 1)) \div PWM_PERIOD_US

====
